---------------------------- MODULE Spec2Model ----------------------------
(* A model of apt_mirror_check.py: the checker of an apt-mirror tree.       *)
(* File contents are abstracted to a pair (size, data); a digest is         *)
(* injective in that pair (no collisions are modelled).                     *)
EXTENDS Integers, Sequences, FiniteSets, TLC

VARIABLES
    vpath,      \* is_checksum_correct: the filepath argument
    vattr,      \* is_checksum_correct: the attr argument (a FileAttr)
    vfile,      \* is_checksum_correct: what is on disk at filepath
    vout        \* is_checksum_correct: Idle before the call, then its outcome

VARIABLES
    rfiles,     \* dist_attrs: the Release files rglob finds, each a list of lines
    rfile,      \* dist_attrs: index of the file being read
    rpos,       \* dist_attrs: index of the next line of that file
    in_block,   \* dist_attrs: in_block
    attr_name,  \* dist_attrs: attr_name
    rattrs,     \* dist_attrs: attrs
    rstate      \* dist_attrs: "off", "run", "done" or "ValueError"

VARIABLES
    pfiles,     \* pool_attrs: the Packages files os.walk finds, each a list of lines
    pfile,      \* pool_attrs: index of the file being read
    ppos,       \* pkg_attrs: index of the next line
    pattrs,     \* pkg_attrs: attrs, the mapping being accumulated
    last_key,   \* pkg_attrs: last_key (None for None)
    precords,   \* every mapping pkg_attrs has yielded, per file, in order
    poolattrs,  \* pool_attrs: attrs
    pstate      \* "off", "run", "yield", "done", "ValueError" or "KeyError"

VARIABLES
    crelease,   \* compare_in_release: the lines of Release, or NoFile
    cinrelease, \* compare_in_release: the lines of InRelease, or NoFile
    cout        \* compare_in_release: Idle, then what the call yielded

VARIABLES
    site,       \* the site directory that exists under <base>/mirror
    disk,       \* the regular files of the tree: path -> file or NoFile
    newfile,    \* <base>/var/NEW: its lines (URLs), or NoText
    config,     \* /etc/apt/mirror.list: its lines, or NoText
    cwd,        \* os.getcwd()
    opt_base,   \* cli: base_dir (None when --base-dir is not given)
    opt_delete, \* cli: delete
    opt_all,    \* cli: all_package_check
    pc,         \* where the program is
    resume,     \* where the suspended generator resumes after a yield
    resolved,   \* get_sites_dir: base_dir after resolution
    mirrors,    \* all_mirrors: the pairs still to yield
    mirror_dir, \* bad_files_in_mirror: mirror_dir
    pool_dir,   \* bad_files_in_mirror: pool_dir
    dist_dirs,  \* bad_files_in_mirror: the dist_dirs still to visit
    dist_dir,   \* bad_files_in_mirror: dist_dir
    phase,      \* which check of the distribution runs: "meta", "pool", "new"
    attrs,      \* the manifest in use (bad_files_in_dir's attrs, or line 235)
    walkdirs,   \* os.walk: the directories still to list
    files,      \* os.walk: the files of the listed directory still to visit
    new_base,   \* get_new_downloaded_pkg: base_dir
    newpos,     \* get_new_downloaded_pkg: index of the next line of var/NEW
    pending,    \* the path the scan has yielded to cli, or None
    has_bad,    \* cli: has_bad
    log         \* history: every verification, yield and unlink, in order

verifyVars == <<vpath, vattr, vfile, vout>>
scanVars == <<site, disk, newfile, config, cwd, opt_base, opt_delete, opt_all,
              pc, resume, resolved, mirrors, mirror_dir, pool_dir, dist_dirs,
              dist_dir, phase, attrs, walkdirs, files, new_base, newpos,
              pending, has_bad, log>>
compareVars == <<crelease, cinrelease, cout>>
pkgVars == <<pfiles, pfile, ppos, pattrs, last_key, precords, poolattrs, pstate>>
releaseVars == <<rfiles, rfile, rpos, in_block, attr_name, rattrs, rstate>>

vars == <<verifyVars, releaseVars, pkgVars, compareVars, scanVars>>

(***************************************************************************)
(* Bounds.                                                                 *)
(***************************************************************************)
MaxSize == 2
MaxData == 2

(***************************************************************************)
(* Values.                                                                 *)
(***************************************************************************)
\* The empty string (a digest is a tuple, so is the string that stands for none).
Empty == <<>>
\* Python's None, where a path or a key is expected.
None == <<"None">>
\* Nothing at a path.
NoFile == [missing |-> TRUE]
\* No call made yet.
Idle == [idle |-> TRUE]

Sizes == 0..MaxSize
Datas == 1..MaxData

\* A regular file: st_size and the identity of its bytes.
Files == [size : Sizes, data : Datas]

\* hashlib.md5 / sha256 / sha512 of the whole content, as a hex digest.
Md5Hex(f) == <<"md5", f.size, f.data>>
Sha256Hex(f) == <<"sha256", f.size, f.data>>
Sha512Hex(f) == <<"sha512", f.size, f.data>>

\* class FileAttr: the constructor's defaults.
FileAttr(path) ==
    [path |-> path, md5sum |-> Empty, sh256sum |-> Empty, sh512sum |-> Empty,
     size |-> 0]

\* The final component of a path (a sequence of segments).
BaseName(path) == path[Len(path)]

(***************************************************************************)
(* is_checksum_correct(filepath, attr)                                     *)
(***************************************************************************)
\* A plausible slip: verify one checksum only, MD5 before SHA256 before SHA512.
ChecksumsByPrecedence(attr, f) ==
    IF attr.md5sum # Empty
    THEN <<[type |-> "MD5", expected_checksum |-> attr.md5sum,
            real_checksum |-> Md5Hex(f)]>>
    ELSE IF attr.sh256sum # Empty
    THEN <<[type |-> "SHA256", expected_checksum |-> attr.sh256sum,
            real_checksum |-> Sha256Hex(f)]>>
    ELSE IF attr.sh512sum # Empty
    THEN <<[type |-> "SHA512", expected_checksum |-> attr.sh512sum,
            real_checksum |-> Sha512Hex(f)]>>
    ELSE <<>>

\* The checksums list, in the order it is appended: SHA256, SHA512, MD5.
Checksums(attr, f) ==
    (IF attr.sh256sum # Empty
        THEN <<[type |-> "SHA256", expected_checksum |-> attr.sh256sum,
                real_checksum |-> Sha256Hex(f)]>>
        ELSE <<>>)
    \o (IF attr.sh512sum # Empty
        THEN <<[type |-> "SHA512", expected_checksum |-> attr.sh512sum,
                real_checksum |-> Sha512Hex(f)]>>
        ELSE <<>>)
    \o (IF attr.md5sum # Empty
        THEN <<[type |-> "MD5", expected_checksum |-> attr.md5sum,
                real_checksum |-> Md5Hex(f)]>>
        ELSE <<>>)

\* The outcome of the call on file f (NoFile: nothing at filepath).
\*   raised: os.stat raised FileNotFoundError
\*   good:   the returned is_good
\*   read:   the content was read (the open/read loop ran)
\*   sizeMsg: the "expected size" line was printed
IsChecksumCorrect(f, attr) ==
    IF f = NoFile
    THEN [raised |-> TRUE, good |-> FALSE, read |-> FALSE, sizeMsg |-> FALSE]
    ELSE LET cs == Checksums(attr, f)
         IN [raised |-> FALSE,
             good |-> \A i \in 1..Len(cs) :
                         cs[i].real_checksum = cs[i].expected_checksum,
             read |-> TRUE,
             sizeMsg |-> attr.size # f.size]

(***************************************************************************)
(* The verifier alone: one call on drawn arguments.                        *)
(***************************************************************************)
VerifyPaths == {<<"d", "Release">>, <<"d", "Packages">>}

\* An expected checksum: absent, or the digest of some content.
ExpectedOf(kind) ==
    {Empty} \cup {<<kind, f.size, f.data>> : f \in Files}

VerifyAttrs(path) ==
    [path : {path}, md5sum : ExpectedOf("md5"), sh256sum : ExpectedOf("sha256"),
     sh512sum : {Empty, <<"sha512", 1, 1>>}, size : Sizes]

VerifyOff ==
    /\ vpath = <<>>
    /\ vattr = FileAttr(<<>>)
    /\ vfile = NoFile
    /\ vout = Idle

VerifyStart ==
    /\ vpath \in VerifyPaths
    /\ vattr \in VerifyAttrs(vpath)
    /\ vfile \in Files \cup {NoFile}
    /\ vout = Idle

VerifyCall ==
    /\ vout = Idle
    /\ vout' = IsChecksumCorrect(vfile, vattr)
    /\ UNCHANGED <<vpath, vattr, vfile>>

(***************************************************************************)
(* Claims about is_checksum_correct.                                       *)
(***************************************************************************)
Called == vout # Idle
OnDisk == vfile # NoFile

\* C1 as stated: with md5 and sha256 both expected, a file whose MD5 digest
\* matches and whose SHA256 digest differs passes (only MD5 is verified).
C1_Md5Precedence ==
    (/\ Called
     /\ OnDisk
     /\ vattr.md5sum # Empty
     /\ vattr.sh256sum # Empty
     /\ Md5Hex(vfile) = vattr.md5sum
     /\ Sha256Hex(vfile) # vattr.sh256sum)
    => vout.good

\* C1 amended: every expected checksum that is present is verified; the call
\* on an existing file returns True exactly when each non-empty expected
\* checksum equals the file's digest of that kind.
C1_AllPresentChecksumsVerified ==
    (Called /\ OnDisk) =>
        (vout.good <=>
            /\ (vattr.md5sum # Empty => Md5Hex(vfile) = vattr.md5sum)
            /\ (vattr.sh256sum # Empty => Sha256Hex(vfile) = vattr.sh256sum)
            /\ (vattr.sh512sum # Empty => Sha512Hex(vfile) = vattr.sh512sum))

\* C1 witness: MD5 matches, SHA256 differs, and the call returned False.
C1_Witness ==
    /\ Called
    /\ OnDisk
    /\ vattr.md5sum # Empty
    /\ Md5Hex(vfile) = vattr.md5sum
    /\ vattr.sh256sum # Empty
    /\ Sha256Hex(vfile) # vattr.sh256sum
    /\ ~vout.good

\* C2 as stated: an existing path not named Release whose expected non-zero
\* size differs from its actual size is reported bad (the call returns
\* False) whatever its checksums, and its content is not read.
C2_SizeMismatchFailsUnread ==
    (/\ Called
     /\ OnDisk
     /\ BaseName(vpath) # "Release"
     /\ vattr.size # 0
     /\ vattr.size # vfile.size)
    => (~vout.good /\ ~vout.read)

\* C4 as stated: a call on a path that is not on disk raises nothing and
\* returns the failure.
C4_MissingIsFail ==
    (Called /\ ~OnDisk) => (~vout.raised /\ ~vout.good)

(***************************************************************************)
(* dist_attrs(dist_dir): the checksum blocks of the Release files.          *)
(* A line is [indent, tokens]: indent is line.startswith(" "), tokens is   *)
(* line.split(). A title line is recognised by its first token.            *)
(***************************************************************************)
MaxRelLines == 4

RelDistDir == <<"dists", "stable">>

\* os.path.join of a directory and a relative name.
Join(dir, name) == dir \o name

RelTitle(t) == [indent |-> FALSE, tokens |-> <<t>>]
RelEntry(checksum, size, rname) ==
    [indent |-> TRUE, tokens |-> <<checksum, size, rname>>]

\* The lines a Release file is drawn from: the three block titles, another
\* field, an empty line, block entries, and an indented line of two tokens.
RelLines ==
    {RelTitle("MD5Sum:"), RelTitle("SHA256:"), RelTitle("SHA512:"),
     RelTitle("Date:"), [indent |-> FALSE, tokens |-> <<>>],
     RelEntry(<<"c", 1>>, 1, <<"a">>), RelEntry(<<"c", 2>>, 2, <<"a">>),
     RelEntry(<<"c", 1>>, 1, <<"b">>),
     [indent |-> TRUE, tokens |-> <<<<"c", 1>>, 1>>]}

SeqsUpTo(S, n) == UNION {[1..k -> S] : k \in 0..n}

\* parse_release_block_title_line(line): <<in_block, attr_name>>.
ParseReleaseBlockTitleLine(line) ==
    IF line.tokens # <<>> /\ line.tokens[1] = "MD5Sum:" THEN <<TRUE, "md5sum">>
    ELSE IF line.tokens # <<>> /\ line.tokens[1] = "SHA256:" THEN <<TRUE, "sh256sum">>
    ELSE IF line.tokens # <<>> /\ line.tokens[1] = "SHA512:" THEN <<TRUE, "sh512sum">>
    ELSE <<FALSE, "">>

\* A plausible slip: a fresh record for every block line (no merge by path).
DistAttrsEntryFresh(a, dir, line, name) ==
    LET path == Join(dir, line.tokens[3])
        attr == [[FileAttr(path) EXCEPT !.size = line.tokens[2]]
                    EXCEPT ![name] = line.tokens[1]]
    IN  [p \in DOMAIN a \cup {path} |-> IF p = path THEN attr ELSE a[p]]

\* Lines 47-55: the block line's record, merged into attrs by path.
DistAttrsEntry(a, dir, line, name) ==
    LET path == Join(dir, line.tokens[3])
        old == IF path \in DOMAIN a THEN a[path] ELSE FileAttr(path)
        attr == [[old EXCEPT !.size = line.tokens[2]]
                    EXCEPT ![name] = line.tokens[1]]
    IN  [p \in DOMAIN a \cup {path} |-> IF p = path THEN attr ELSE a[p]]

ReleaseOff ==
    /\ rfiles = <<>>
    /\ rfile = 0
    /\ rpos = 0
    /\ in_block = FALSE
    /\ attr_name = ""
    /\ rattrs = <<>>
    /\ rstate = "off"

ReleaseStart ==
    /\ rfiles \in {<<f>> : f \in SeqsUpTo(RelLines, MaxRelLines)}
           \cup {<<f, g>> : f \in SeqsUpTo(RelLines, MaxRelLines - 1),
                            g \in {<<>>} \cup {<<l>> : l \in RelLines}}
    /\ rfile = 1
    /\ rpos = 1
    /\ in_block = FALSE
    /\ attr_name = ""
    /\ rattrs = <<>>
    /\ rstate = "run"

\* One iteration of "for line in f.readlines()".
DistAttrsLine ==
    /\ rstate = "run"
    /\ rpos <= Len(rfiles[rfile])
    /\ LET line == rfiles[rfile][rpos]
       IN  IF ~line.indent
           THEN /\ in_block' = ParseReleaseBlockTitleLine(line)[1]
                /\ attr_name' = ParseReleaseBlockTitleLine(line)[2]
                /\ rpos' = rpos + 1
                /\ UNCHANGED <<rattrs, rstate>>
           ELSE IF ~in_block
           THEN /\ rpos' = rpos + 1
                /\ UNCHANGED <<in_block, attr_name, rattrs, rstate>>
           ELSE IF Len(line.tokens) # 3
           THEN /\ rstate' = "ValueError"
                /\ UNCHANGED <<in_block, attr_name, rattrs, rpos>>
           ELSE /\ rattrs' = DistAttrsEntry(rattrs, RelDistDir, line, attr_name)
                /\ rpos' = rpos + 1
                /\ UNCHANGED <<in_block, attr_name, rstate>>
    /\ UNCHANGED <<rfiles, rfile>>

\* The end of one Release file: the next one starts outside any block.
DistAttrsNextFile ==
    /\ rstate = "run"
    /\ rpos > Len(rfiles[rfile])
    /\ rfile < Len(rfiles)
    /\ rfile' = rfile + 1
    /\ rpos' = 1
    /\ in_block' = FALSE
    /\ attr_name' = ""
    /\ UNCHANGED <<rfiles, rattrs, rstate>>

\* The last file is read: return attrs.
DistAttrsReturn ==
    /\ rstate = "run"
    /\ rpos > Len(rfiles[rfile])
    /\ rfile = Len(rfiles)
    /\ rstate' = "done"
    /\ UNCHANGED <<rfiles, rfile, rpos, in_block, attr_name, rattrs>>

(***************************************************************************)
(* Claims about dist_attrs.                                                *)
(***************************************************************************)
\* The index in the current file of the most recent non-indented line
\* before position pos, or 0.
LastNonIndented(file, pos) ==
    LET S == {i \in 1..(pos - 1) : ~file[i].indent}
    IN  IF S = {} THEN 0 ELSE CHOOSE i \in S : \A j \in S : j <= i

\* The checksum field a block title opens, or "" for any other line.
TitleField(line) ==
    IF line.tokens = <<>> THEN ""
    ELSE CASE line.tokens[1] = "MD5Sum:" -> "md5sum"
           [] line.tokens[1] = "SHA256:" -> "sh256sum"
           [] line.tokens[1] = "SHA512:" -> "sh512sum"
           [] OTHER -> ""

ChecksumFields == {"md5sum", "sh256sum", "sh512sum"}

\* The value of a field of the record keyed by path, "" when there is none.
FieldOf(a, path, fld) ==
    IF path \in DOMAIN a THEN a[path][fld] ELSE Empty

\* What reading the line at rpos must do to attrs, by the claim.
C8_LineEffect ==
    LET file == rfiles[rfile]
        line == file[rpos]
        t == LastNonIndented(file, rpos)
        fld == IF t = 0 THEN "" ELSE TitleField(file[t])
    IN  IF line.indent /\ Len(line.tokens) = 3 /\ fld # ""
        THEN LET path == Join(RelDistDir, line.tokens[3])
             IN  /\ DOMAIN rattrs' = DOMAIN rattrs \cup {path}
                 /\ rattrs'[path][fld] = line.tokens[1]
                 /\ rattrs'[path].size = line.tokens[2]
                 /\ rattrs'[path].path = path
                 /\ \A g \in ChecksumFields \ {fld} :
                        rattrs'[path][g] = FieldOf(rattrs, path, g)
                 /\ \A q \in DOMAIN rattrs \ {path} : rattrs'[q] = rattrs[q]
        ELSE rattrs' = rattrs

\* C8: an indented three-token line is attributed to the block opened by the
\* most recent non-indented line of its file exactly when that line is a
\* block title; it then writes its own checksum field and the size of the
\* record keyed by the joined path and leaves the other two checksum fields
\* and every other record unchanged; any other line leaves attrs unchanged.
C8_MergeByPath ==
    [][(rstate = "run" /\ rfile' = rfile /\ rpos' = rpos + 1) => C8_LineEffect]_vars

\* C8 witness: the scan is over and one record holds the checksums of two
\* blocks (MD5Sum and SHA256) and the size of the later one.
C8_Witness ==
    /\ rstate = "done"
    /\ \E p \in DOMAIN rattrs :
          /\ rattrs[p].md5sum # Empty
          /\ rattrs[p].sh256sum # Empty
          /\ rattrs[p].size = 2

(***************************************************************************)
(* pkg_attrs(pkg_desc_path) and pool_attrs(dist_dir, pool_dir).             *)
(* A line (after rstrip of the newline) is the sequence of its pieces: a   *)
(* piece is one character (":" or " ") or a word, so that find(":") and    *)
(* the slices line[:sep_index] and line[sep_index + 2:] are computed. A    *)
(* Filename is the sequence of its path segments.                          *)
(***************************************************************************)
MaxPkgLines == 4

PoolDir == <<"mirror", "site", "repo">>

PkgField(key, value) == <<key, ":", " ">> \o value

PkgLines ==
    {PkgField("Filename", <<"a.deb">>), PkgField("Filename", <<"b.deb">>),
     PkgField("Size", <<"1">>), PkgField("MD5sum", <<"m">>),
     <<>>, <<" ", "x">>, <<"junk">>}

\* A second Packages file under the same distribution directory.
SecondPackages ==
    <<PkgField("Filename", <<"a.deb">>), PkgField("Size", <<"2">>), <<>>>>

\* len(line.strip()) == 0
IsBlank(line) == \A i \in 1..Len(line) : line[i] = " "

\* line.startswith(" ")
StartsWithSpace(line) == Len(line) > 0 /\ line[1] = " "

\* line.find(":"): the index of the first colon, 0 when there is none (-1).
FindColon(line) ==
    LET S == {i \in 1..Len(line) : line[i] = ":"}
    IN  IF S = {} THEN 0 ELSE CHOOSE i \in S : \A j \in S : i <= j

\* line[:sep_index]
KeyOf(line) == SubSeq(line, 1, FindColon(line) - 1)

\* line[sep_index + 2:]
ValueOf(line) == SubSeq(line, FindColon(line) + 2, Len(line))

\* name.endswith(".deb"): the pieces that end so are these.
EndsWithDeb(name) == Len(name) > 0 /\ name[Len(name)] \in {"a.deb", "b.deb"}

\* int(s): defined on a single run of digits.
IsInt(v) == Len(v) = 1 /\ v[1] \in {"0", "1", "2"}
IntOf(v) == CASE v[1] = "0" -> 0 [] v[1] = "1" -> 1 [] v[1] = "2" -> 2

\* dict.get(key, default)
Get(d, key, default) == IF key \in DOMAIN d THEN d[key] ELSE default

\* d[key] = value
Put(d, key, value) ==
    [k \in DOMAIN d \cup {key} |-> IF k = key THEN value ELSE d[k]]

PkgOff ==
    /\ pfiles = <<>>
    /\ pfile = 0
    /\ ppos = 0
    /\ pattrs = <<>>
    /\ last_key = None
    /\ precords = <<>>
    /\ poolattrs = <<>>
    /\ pstate = "off"

PkgStart ==
    /\ pfiles \in {<<f>> : f \in SeqsUpTo(PkgLines, MaxPkgLines)}
           \cup {<<f, SecondPackages>> : f \in SeqsUpTo(PkgLines, MaxPkgLines)}
    /\ pfile = 1
    /\ ppos = 1
    /\ pattrs = <<>>
    /\ last_key = None
    /\ precords = [i \in 1..Len(pfiles) |-> <<>>]
    /\ poolattrs = <<>>
    /\ pstate = "run"

\* pkg_attrs: one iteration of "for line in f.readlines()", up to a yield.
PkgAttrsLine ==
    /\ pstate = "run"
    /\ ppos <= Len(pfiles[pfile])
    /\ LET line == pfiles[pfile][ppos]
       IN  IF IsBlank(line)
           THEN /\ pstate' = "yield"
                /\ precords' = [precords EXCEPT ![pfile] = Append(@, pattrs)]
                /\ UNCHANGED <<pattrs, last_key, ppos>>
           ELSE IF StartsWithSpace(line)
           THEN IF last_key = None
                THEN /\ pstate' = "ValueError"
                     /\ UNCHANGED <<pattrs, last_key, ppos, precords>>
                ELSE /\ pattrs' = [pattrs EXCEPT ![last_key] = @ \o line]
                     /\ ppos' = ppos + 1
                     /\ UNCHANGED <<last_key, pstate, precords>>
           ELSE IF FindColon(line) = 0
           THEN /\ pstate' = "ValueError"
                /\ UNCHANGED <<pattrs, last_key, ppos, precords>>
           ELSE /\ last_key' = KeyOf(line)
                /\ pattrs' = Put(pattrs, KeyOf(line), ValueOf(line))
                /\ ppos' = ppos + 1
                /\ UNCHANGED <<pstate, precords>>
    /\ UNCHANGED <<pfiles, pfile, poolattrs>>

\* pool_attrs, lines 97-104: the record of one package archive.
PoolAttrsPut(a, pool, pkgattr) ==
    LET name == pkgattr[<<"Filename">>]
        path == Join(pool, name)
        attr == [FileAttr(path) EXCEPT
                    !.size = IntOf(Get(pkgattr, <<"Size">>, <<"0">>)),
                    !.md5sum = Get(pkgattr, <<"MD5sum">>, Empty),
                    !.sh256sum = Get(pkgattr, <<"SHA256">>, Empty)]
    IN  Put(a, path, attr)

\* pool_attrs: the body of "for pkgattr in pkg_attrs(...)" on the yielded
\* mapping; pkg_attrs then resumes after its yield (lines 73-74).
PoolAttrsRecord ==
    /\ pstate = "yield"
    /\ IF <<"Filename">> \notin DOMAIN pattrs
       THEN /\ pstate' = "KeyError"
            /\ UNCHANGED <<pattrs, last_key, ppos, poolattrs>>
       ELSE IF ~EndsWithDeb(pattrs[<<"Filename">>])
       THEN /\ pstate' = "run"
            /\ pattrs' = <<>>
            /\ last_key' = None
            /\ ppos' = ppos + 1
            /\ UNCHANGED poolattrs
       ELSE IF ~IsInt(Get(pattrs, <<"Size">>, <<"0">>))
       THEN /\ pstate' = "ValueError"
            /\ UNCHANGED <<pattrs, last_key, ppos, poolattrs>>
       ELSE /\ poolattrs' = PoolAttrsPut(poolattrs, PoolDir, pattrs)
            /\ pstate' = "run"
            /\ pattrs' = <<>>
            /\ last_key' = None
            /\ ppos' = ppos + 1
    /\ UNCHANGED <<pfiles, pfile, precords>>

\* pkg_attrs reaches the end of the file and returns (nothing is yielded
\* there); pool_attrs goes on to the next Packages file.
PkgAttrsEndNextFile ==
    /\ pstate = "run"
    /\ ppos > Len(pfiles[pfile])
    /\ pfile < Len(pfiles)
    /\ pfile' = pfile + 1
    /\ ppos' = 1
    /\ pattrs' = <<>>
    /\ last_key' = None
    /\ UNCHANGED <<pfiles, precords, poolattrs, pstate>>

\* The last Packages file is read: pool_attrs returns attrs.
PoolAttrsReturn ==
    /\ pstate = "run"
    /\ ppos > Len(pfiles[pfile])
    /\ pfile = Len(pfiles)
    /\ pstate' = "done"
    /\ UNCHANGED <<pfiles, pfile, ppos, pattrs, last_key, precords, poolattrs>>

(***************************************************************************)
(* Claims about pkg_attrs and pool_attrs.                                  *)
(***************************************************************************)
\* The number of blank-line-separated blocks of a control file: the maximal
\* runs of non-blank lines.
NumBlocks(file) ==
    Cardinality({i \in 1..Len(file) :
                    /\ ~IsBlank(file[i])
                    /\ (i = 1 \/ IsBlank(file[i - 1]))})

\* The lines after the last blank line of a file.
LastBlock(file) ==
    LET S == {i \in 1..Len(file) : IsBlank(file[i])}
        b == IF S = {} THEN 0 ELSE CHOOSE i \in S : \A j \in S : j <= i
    IN  SubSeq(file, b + 1, Len(file))

\* C3 as stated: when pool_attrs returns, pkg_attrs has yielded one record
\* per blank-line-separated block of each Packages file, the final block
\* included when no blank line follows it, so that a final block naming a
\* package archive has its path in the manifest.
C3_OneRecordPerBlock ==
    pstate = "done" =>
        \A i \in 1..Len(pfiles) :
            /\ Len(precords[i]) = NumBlocks(pfiles[i])
            /\ \A n \in {<<"a.deb">>, <<"b.deb">>} :
                  LastBlock(pfiles[i]) = <<PkgField("Filename", n)>>
                      => Join(PoolDir, n) \in DOMAIN poolattrs

(***************************************************************************)
(* compare_in_release(release_path).                                       *)
(* A file is the sequence of its lines (read().splitlines()).              *)
(***************************************************************************)
MaxPayload == 2

BeginSigned == "-----BEGIN PGP SIGNED MESSAGE-----"
BeginSignature == "-----BEGIN PGP SIGNATURE-----"
EndSignature == "-----END PGP SIGNATURE-----"

\* line.strip(), on the lines the files are drawn from.
Strip(line) == IF line = " " THEN "" ELSE line

\* [line for line in lines if line.strip()]
RECURSIVE NonBlank(_)
NonBlank(lines) ==
    IF lines = <<>> THEN <<>>
    ELSE IF Strip(Head(lines)) = "" THEN NonBlank(Tail(lines))
    ELSE <<Head(lines)>> \o NonBlank(Tail(lines))

\* The payload lines a Release file is drawn from.
PayloadLines == {"Origin: a", "Suite: b", ""}
Payloads == SeqsUpTo(PayloadLines, MaxPayload)

\* The armor headers after the begin marker: none, one or two.
ArmorHeaders == {<<>>, <<"Hash: SHA256">>, <<"Hash: SHA256", "Hash: SHA512">>}

\* A clear-signed file: marker, headers, an empty line, payload, signature.
ClearSigned(hdr, payload) ==
    <<BeginSigned>> \o hdr \o <<"">> \o payload
        \o <<BeginSignature, "", "iQEz", EndSignature>>

\* A plausible slip: the payload starts three lines after the marker.
PayloadStartThree(i) == i + 3

\* Line 177: the index the payload starts at, for the marker at index i.
PayloadStart(i) == i + 2

\* s[start:stop] of a list, with 0-based indices within 0..len(s).
Slice(s, start, stop) == SubSeq(s, start + 1, stop)

\* The greatest 0-based index of a line whose strip() is m, else 0 (the
\* initial value of start_idx and stop_idx).
LastIndexOf(lines, m) ==
    LET S == {i \in 1..Len(lines) : Strip(lines[i]) = m}
    IN  IF S = {} THEN -1 ELSE (CHOOSE i \in S : \A j \in S : j <= i) - 1

\* Lines 174-180: whether the two files differ.
InReleaseDiffers(release, inrelease) ==
    LET release_lines == NonBlank(release)
        inrelease_lines == NonBlank(inrelease)
        b == LastIndexOf(inrelease_lines, BeginSigned)
        e == LastIndexOf(inrelease_lines, BeginSignature)
        start_idx == IF b < 0 THEN 0 ELSE PayloadStart(b)
        stop_idx == IF e < 0 THEN 0 ELSE e
    IN  release_lines # Slice(inrelease_lines, start_idx, stop_idx)

\* A text file on disk, or nothing at its path (open raises
\* FileNotFoundError).
TextFile(lines) == [exists |-> TRUE, lines |-> lines]
NoText == [exists |-> FALSE, lines |-> <<>>]

CompareOff ==
    /\ crelease = NoText
    /\ cinrelease = NoText
    /\ cout = Idle

CompareStart ==
    /\ crelease \in {TextFile(q) : q \in Payloads} \cup {NoText}
    /\ cinrelease \in {TextFile(ClearSigned(h, q)) : h \in ArmorHeaders, q \in Payloads}
                        \cup {TextFile(q) : q \in Payloads} \cup {NoText}
    /\ cout = Idle

\* The whole generator: it returns at once when either file cannot be
\* opened, and yields inrelease_path when the lines differ.
CompareInRelease ==
    /\ cout = Idle
    /\ cout' = IF ~crelease.exists \/ ~cinrelease.exists
               THEN [skipped |-> TRUE, bad |-> FALSE]
               ELSE [skipped |-> FALSE,
                     bad |-> InReleaseDiffers(crelease.lines, cinrelease.lines)]
    /\ UNCHANGED <<crelease, cinrelease>>

(***************************************************************************)
(* Claims about compare_in_release.                                        *)
(***************************************************************************)
Compared == cout # Idle

\* Whether lines is a clear-signed file: a begin marker first and one
\* signature marker after it.
IsClearSigned(lines) ==
    /\ Len(lines) > 0
    /\ lines[1] = BeginSigned
    /\ \E i \in 2..Len(lines) : lines[i] = BeginSignature

\* A clear-signed file with at least one armor header after the marker.
HasArmorHeader(lines) == IsClearSigned(lines) /\ lines[2] # ""

FirstIndex(lines, m) == CHOOSE i \in 1..Len(lines) :
    lines[i] = m /\ \A j \in 1..(i - 1) : lines[j] # m

\* The clear-signed payload as the claim reads it: the lines strictly
\* between the empty line that ends the armor headers and the signature
\* marker.
SignedPayload(lines) ==
    SubSeq(lines, FirstIndex(lines, "") + 1, FirstIndex(lines, BeginSignature) - 1)

\* The lines strictly between the begin marker and the signature marker.
SignedBody(lines) == SubSeq(lines, 2, FirstIndex(lines, BeginSignature) - 1)

\* All but the first element, of a possibly empty sequence.
Rest(s) == IF s = <<>> THEN <<>> ELSE Tail(s)

\* C6 as stated: when both files exist, InRelease is reported bad exactly
\* when its clear-signed payload is not line-by-line identical to the
\* content of Release; when either is missing nothing is reported.
C6_PayloadIdentical ==
    Compared =>
        IF crelease.exists /\ cinrelease.exists
        THEN HasArmorHeader(cinrelease.lines) =>
                (cout.bad <=> SignedPayload(cinrelease.lines) # crelease.lines)
        ELSE cout.skipped /\ ~cout.bad

\* C6 amended: blank lines are dropped from both files and exactly one
\* line after the begin marker is skipped: InRelease is reported bad exactly
\* when the non-blank lines of Release are not identical to the non-blank
\* lines between the begin and signature markers less the first of them;
\* when either file is missing nothing is reported.
C6_NonBlankAfterOneHeader ==
    Compared =>
        IF crelease.exists /\ cinrelease.exists
        THEN IsClearSigned(cinrelease.lines) =>
                (cout.bad <=>
                    Rest(NonBlank(SignedBody(cinrelease.lines)))
                        # NonBlank(crelease.lines))
        ELSE cout.skipped /\ ~cout.bad

\* C6 witness: a correctly wrapped file with one armor header whose payload
\* differs from Release in a non-blank line, reported bad.
C6_Witness ==
    /\ Compared
    /\ crelease = TextFile(<<"Origin: a", "Suite: b">>)
    /\ cinrelease =
          TextFile(ClearSigned(<<"Hash: SHA256">>, <<"Origin: a", "Origin: a">>))
    /\ cout.bad

(***************************************************************************)
(* The scan: cli, all_mirrors, bad_files_in_mirror, bad_files_in_dir and   *)
(* get_new_downloaded_pkg over a small tree.                               *)
(*                                                                         *)
(* A path is the sequence of its segments. Under <base>/mirror lies one    *)
(* site: "deb" holds a repository with dists/d1, dists/d2 and a shared     *)
(* pool; "flat" holds a flat repository with a flat repository nested in   *)
(* its sub directory. The text of a metadata file is named by its data:    *)
(* ReleaseText and PackagesText give what dist_attrs and pool_attrs parse  *)
(* from it, and an InRelease file of data d wraps the payload of a Release *)
(* file of data d.                                                         *)
(***************************************************************************)
MaxNew == 2

Base == <<"srv">>
Elsewhere == <<"home">>
SitesDir == <<"srv", "mirror">>

DebRoot == <<"srv", "mirror", "deb", "debian">>
FlatRoot == <<"srv", "mirror", "flat", "repo">>

\* The directories of the tree, in the order os.walk and glob reach them.
DirOrder(s) ==
    IF s = "deb"
    THEN <<SitesDir, SitesDir \o <<"deb">>, DebRoot, DebRoot \o <<"dists">>,
           DebRoot \o <<"dists", "d1">>, DebRoot \o <<"dists", "d2">>,
           DebRoot \o <<"pool">>>>
    ELSE <<SitesDir, SitesDir \o <<"flat">>, FlatRoot, FlatRoot \o <<"sub">>>>

\* The paths a regular file may be at, in directory-enumeration order.
FileOrder(s) ==
    IF s = "deb"
    THEN <<DebRoot \o <<"dists", "d1", "Release">>,
           DebRoot \o <<"dists", "d1", "InRelease">>,
           DebRoot \o <<"dists", "d1", "Packages">>,
           DebRoot \o <<"dists", "d2", "Release">>,
           DebRoot \o <<"dists", "d2", "Packages">>,
           DebRoot \o <<"pool", "a.deb">>,
           DebRoot \o <<"pool", "b.deb">>>>
    ELSE <<FlatRoot \o <<"Release">>,
           FlatRoot \o <<"InRelease">>,
           FlatRoot \o <<"Packages">>,
           FlatRoot \o <<"sub", "Release">>,
           FlatRoot \o <<"sub", "InRelease">>,
           FlatRoot \o <<"sub", "Packages">>,
           FlatRoot \o <<"sub", "a.deb">>>>

Range(q) == {q[i] : i \in 1..Len(q)}

\* The content of a file of the tree: good (1) or not (2), of one size.
ScanFile(d) == [size |-> 1, data |-> d]

\* What may be at a path when the scan starts.
Contents(path) ==
    LET name == path[Len(path)]
        nested == path[Len(path) - 1] = "sub"
    IN  CASE name = "Release" /\ ~nested -> {ScanFile(1)}
          [] name = "Release" /\ nested -> {ScanFile(1), ScanFile(2)}
          [] name = "Packages" -> {ScanFile(1), ScanFile(2)}
          [] name = "b.deb" -> {ScanFile(1), ScanFile(2)}
          [] OTHER -> {NoFile, ScanFile(1), ScanFile(2)}

\* The block lines of a Release file for one relative name: an MD5Sum and a
\* SHA256 entry, each tagged with the attr_name of its block.
ReleaseEntries(rname, d) ==
    <<[name |-> "md5sum",
       line |-> RelEntry(Md5Hex(ScanFile(d)), ScanFile(d).size, rname)],
      [name |-> "sh256sum",
       line |-> RelEntry(Sha256Hex(ScanFile(d)), ScanFile(d).size, rname)]>>

\* The block lines of the Release file at path whose content is data d.
ReleaseText(path, d) ==
    IF path = FlatRoot \o <<"Release">>
    THEN ReleaseEntries(<<"Packages">>, 1) \o ReleaseEntries(<<"sub", "Release">>, 1)
         \o ReleaseEntries(<<"sub", "InRelease">>, 1)
         \o ReleaseEntries(<<"sub", "Packages">>, 1)
    ELSE ReleaseEntries(<<"Packages">>, d)

\* One record of a Packages file, as pkg_attrs yields it.
PackageRecord(filename, d) ==
    (<<"Filename">> :> filename) @@ (<<"Size">> :> <<"1">>)
        @@ (<<"MD5sum">> :> Md5Hex(ScanFile(d)))
        @@ (<<"SHA256">> :> Sha256Hex(ScanFile(d)))

\* The records of the Packages file at path whose content is data d (each
\* record of the file is followed by a blank line).
PackagesText(path, d) ==
    IF path = DebRoot \o <<"dists", "d1", "Packages">>
    THEN IF d = 1
         THEN <<PackageRecord(<<"pool", "a.deb">>, 1),
                PackageRecord(<<"pool", "b.deb">>, 1)>>
         ELSE <<PackageRecord(<<"pool", "a.deb">>, 2)>>
    ELSE IF path = DebRoot \o <<"dists", "d2", "Packages">>
    THEN IF d = 1 THEN <<PackageRecord(<<"pool", "a.deb">>, 1)>> ELSE <<>>
    ELSE IF path = FlatRoot \o <<"Packages">>
    THEN IF d = 1 THEN <<PackageRecord(<<"sub", "a.deb">>, 1)>> ELSE <<>>
    ELSE <<PackageRecord(<<"a.deb">>, d)>>

\* A line of var/NEW: the URL of a downloaded file.
Url(host, path) == [host |-> host, path |-> path]

NewUrls(s) ==
    IF s = "deb"
    THEN {Url("deb", <<"debian", "pool", "a.deb">>),
          Url("deb", <<"debian", "pool", "b.deb">>),
          Url("deb", <<"debian", "dists", "d1", "Packages">>)}
    ELSE {Url("flat", <<"repo", "sub", "a.deb">>),
          Url("flat", <<"repo", "sub", "Packages">>)}

\* A line of /etc/apt/mirror.list: a "set base_path <path>" directive
\* (base_path is the path) or any other line (base_path is None).
ConfigLine(path) == [base_path |-> path]

Configs ==
    {NoText, TextFile(<<>>), TextFile(<<ConfigLine(None), ConfigLine(Base)>>),
     TextFile(<<ConfigLine(Base), ConfigLine(Elsewhere)>>),
     TextFile(<<ConfigLine(Elsewhere), ConfigLine(Base)>>)}

(***************************************************************************)
(* Paths and the file system.                                              *)
(***************************************************************************)
\* b.startswith(a), for whole segments (no directory of the tree has a name
\* that begins with the name of another).
IsPrefix(a, b) == Len(a) <= Len(b) /\ SubSeq(b, 1, Len(a)) = a

\* os.path.dirname of a normalised path.
Dirname(path) == SubSeq(path, 1, Len(path) - 1)

\* The file at a path, NoFile when there is none.
DiskAt(d, path) == IF path \in DOMAIN d THEN d[path] ELSE NoFile

\* os.path.isfile(path)
IsFile(d, path) == DiskAt(d, path) # NoFile

\* os.path.isdir(path)
IsDir(s, path) == path \in Range(DirOrder(s))

\* The directories os.walk(top) visits, top first.
WalkDirs(s, top) == SelectSeq(DirOrder(s), LAMBDA d : IsPrefix(top, d))

\* The subdirectories of top (the second item of os.walk's first triple).
SubDirs(s, top) ==
    SelectSeq(DirOrder(s), LAMBDA d : Len(d) = Len(top) + 1 /\ IsPrefix(top, d))

\* The regular files of one directory, as os.walk lists them at that time.
Listing(s, d, dir) ==
    SelectSeq(FileOrder(s), LAMBDA f : Dirname(f) = dir /\ IsFile(d, f))

\* The regular files named name anywhere under top (a recursive glob).
GlobFiles(s, d, top, name) ==
    SelectSeq(FileOrder(s),
              LAMBDA f : IsPrefix(top, f) /\ BaseName(f) = name /\ IsFile(d, f))

\* trim_path(path, trim) for a string trim.
TrimPath(path, trim) ==
    LET S == {i \in 1..Len(path) : path[i] = trim}
    IN  IF S = {} THEN path
        ELSE SubSeq(path, 1, (CHOOSE i \in S : \A j \in S : i <= j) - 1)

\* release_path.replace("Release", "InRelease"), segment by segment.
ReplaceRelease(path) ==
    [i \in 1..Len(path) |-> IF path[i] = "Release" THEN "InRelease" ELSE path[i]]

(***************************************************************************)
(* The manifests.                                                          *)
(***************************************************************************)
\* dist_attrs on the block lines of one Release file.
RECURSIVE DistAttrsFile(_, _, _)
DistAttrsFile(a, dir, entries) ==
    IF entries = <<>> THEN a
    ELSE DistAttrsFile(DistAttrsEntry(a, dir, Head(entries).line, Head(entries).name),
                       dir, Tail(entries))

RECURSIVE DistAttrsFiles(_, _, _, _)
DistAttrsFiles(a, d, dir, releases) ==
    IF releases = <<>> THEN a
    ELSE DistAttrsFiles(
            DistAttrsFile(a, dir, ReleaseText(Head(releases), d[Head(releases)].data)),
            d, dir, Tail(releases))

\* dist_attrs(dist_dir): every Release file under dist_dir, merged.
DistAttrs(s, d, dir) == DistAttrsFiles(<<>>, d, dir, GlobFiles(s, d, dir, "Release"))

\* pool_attrs on the records of one Packages file.
RECURSIVE PoolAttrsFile(_, _, _)
PoolAttrsFile(a, pool, records) ==
    IF records = <<>> THEN a
    ELSE PoolAttrsFile(
            IF EndsWithDeb(Head(records)[<<"Filename">>])
            THEN PoolAttrsPut(a, pool, Head(records)) ELSE a,
            pool, Tail(records))

RECURSIVE PoolAttrsFiles(_, _, _, _)
PoolAttrsFiles(a, d, pool, packages) ==
    IF packages = <<>> THEN a
    ELSE PoolAttrsFiles(
            PoolAttrsFile(a, pool, PackagesText(Head(packages), d[Head(packages)].data)),
            d, pool, Tail(packages))

\* pool_attrs(dist_dir, pool_dir): every Packages file under dist_dir.
PoolAttrs(s, d, dir, pool) ==
    PoolAttrsFiles(<<>>, d, pool, GlobFiles(s, d, dir, "Packages"))

(***************************************************************************)
(* Discovery.                                                              *)
(***************************************************************************)
\* find_base_path_in_config(): the first directive, None when there is
\* none or the file is missing.
FindBasePathInConfig(c) ==
    LET S == {i \in 1..Len(c.lines) : c.lines[i].base_path # None}
    IN  IF ~c.exists \/ S = {} THEN None
        ELSE c.lines[CHOOSE i \in S : \A j \in S : i <= j].base_path

\* get_sites_dir, lines 271-274: the base directory in use.
ResolveBaseDir(base_dir, c, wd) ==
    IF base_dir # None THEN base_dir
    ELSE IF FindBasePathInConfig(c) # None THEN FindBasePathInConfig(c)
    ELSE wd

Mirror(dir, flat) == [dir |-> dir, flat |-> flat]

\* all_mirrors, lines 244-255, for one site directory.
MirrorsOfSite(s, d, site_dir) ==
    LET dists == SelectSeq(DirOrder(s),
                           LAMBDA x : IsPrefix(site_dir, x) /\ BaseName(x) = "dists")
        flats == GlobFiles(s, d, site_dir, "Release")
    IN  IF dists # <<>>
        THEN [i \in 1..Len(dists) |-> Mirror(Dirname(dists[i]), FALSE)]
        ELSE [i \in 1..Len(flats) |-> Mirror(Dirname(flats[i]), TRUE)]

RECURSIVE MirrorsOfSites(_, _, _)
MirrorsOfSites(s, d, site_dirs) ==
    IF site_dirs = <<>> THEN <<>>
    ELSE MirrorsOfSite(s, d, Head(site_dirs)) \o MirrorsOfSites(s, d, Tail(site_dirs))

\* all_mirrors(sites_dir): every (mirror, is_flat_repo) it yields. The
\* generator is lazy, but it looks only at directories and Release files,
\* which the scan never removes, so what it yields is fixed from the start.
AllMirrors(s, d, sites_dir) == MirrorsOfSites(s, d, SubDirs(s, sites_dir))

\* A plausible slip: the "mirror" directory is left out of the path.
UrlToPathNoMirror(base_dir, url) == Join(base_dir, <<url.host>> \o url.path)

\* get_new_downloaded_pkg, line 203: the path of a downloaded URL.
UrlToPath(base_dir, url) == Join(base_dir, <<"mirror", url.host>> \o url.path)

\* A plausible slip: a listed path is yielded whether it is a file or not.
IsDownloadedAlways(d, filepath) == TRUE

\* get_new_downloaded_pkg, lines 205-206: the listed paths it yields.
IsDownloaded(d, filepath) == IsFile(d, filepath)

\* A plausible slip: files named Release are verified like the others.
SkipsNothing(filename) == FALSE

\* bad_files_in_dir, line 157: the file names it passes over.
SkipsFile(filename) == filename = "Release"

(***************************************************************************)
(* The history.                                                            *)
(***************************************************************************)
\* is_checksum_correct was called on path (raised: os.stat raised).
VerifyEvent(path, out) ==
    [op |-> "verify", path |-> path, dist |-> dist_dir, phase |-> phase,
     ok |-> ~out.raised /\ out.good, found |-> ~out.raised]

\* compare_in_release tried to open path (found: it was there).
CompareEvent(path, found, same) ==
    [op |-> "compare", path |-> path, dist |-> dist_dir, phase |-> "compare",
     ok |-> found /\ same, found |-> found]

YieldEvent(path) ==
    [op |-> "yield", path |-> path, dist |-> dist_dir, phase |-> phase,
     ok |-> FALSE, found |-> TRUE]

\* os.unlink was called on path (found: it was there).
UnlinkEvent(path, found) ==
    [op |-> "unlink", path |-> path, dist |-> dist_dir, phase |-> phase,
     ok |-> found, found |-> found]

(***************************************************************************)
(* The scan's steps.                                                       *)
(***************************************************************************)
ScanOff ==
    /\ site = "none"
    /\ disk = <<>>
    /\ newfile = NoText
    /\ config = NoText
    /\ cwd = None
    /\ opt_base = None
    /\ opt_delete = FALSE
    /\ opt_all = FALSE
    /\ pc = "off"
    /\ resume = "off"
    /\ resolved = None
    /\ mirrors = <<>>
    /\ mirror_dir = None
    /\ pool_dir = None
    /\ dist_dirs = <<>>
    /\ dist_dir = None
    /\ phase = "none"
    /\ attrs = <<>>
    /\ walkdirs = <<>>
    /\ files = <<>>
    /\ new_base = None
    /\ newpos = 0
    /\ pending = None
    /\ has_bad = FALSE
    /\ log = <<>>

\* The state cli starts in: the tree, var/NEW, the options.
ScanStart ==
    /\ site \in {"deb", "flat"}
    /\ disk \in {d \in [Range(FileOrder(site)) -> {NoFile, ScanFile(1), ScanFile(2)}] :
                    \A f \in Range(FileOrder(site)) : d[f] \in Contents(f)}
    /\ opt_delete \in BOOLEAN
    /\ opt_all \in BOOLEAN
    /\ newfile \in IF opt_all THEN {NoText}
                   ELSE {NoText} \cup {TextFile(q) : q \in SeqsUpTo(NewUrls(site), MaxNew)}
    /\ \/ /\ opt_base = Base
          /\ config = NoText
          /\ cwd = Elsewhere
       \/ /\ opt_base = None
          /\ config \in Configs
          /\ cwd \in {Base, Elsewhere}
          /\ \A f \in Range(FileOrder(site)) : disk[f] = ScanFile(1)
          /\ opt_delete = FALSE
          /\ newfile \in {NoText, TextFile(<<>>)}
    /\ pc = "cli"
    /\ resume = "off"
    /\ resolved = None
    /\ mirrors = <<>>
    /\ mirror_dir = None
    /\ pool_dir = None
    /\ dist_dirs = <<>>
    /\ dist_dir = None
    /\ phase = "none"
    /\ attrs = <<>>
    /\ walkdirs = <<>>
    /\ files = <<>>
    /\ new_base = None
    /\ newpos = 0
    /\ pending = None
    /\ has_bad = FALSE
    /\ log = <<>>

\* cli, line 289: get_sites_dir(base_dir), then the first all_mirrors step.
GetSitesDir ==
    /\ pc = "cli"
    /\ resolved' = ResolveBaseDir(opt_base, config, cwd)
    /\ IF IsDir(site, Join(resolved', <<"mirror">>))
       THEN /\ mirrors' = AllMirrors(site, disk, Join(resolved', <<"mirror">>))
            /\ pc' = "mirrors"
       ELSE /\ mirrors' = <<>>
            /\ pc' = "BadOptionUsage"
    /\ UNCHANGED <<site, disk, newfile, config, cwd, opt_base, opt_delete,
                   opt_all, resume, mirror_dir, pool_dir, dist_dirs, dist_dir,
                   phase, attrs, walkdirs, files, new_base, newpos, pending,
                   has_bad, log>>

\* cli, line 292, and bad_files_in_mirror, lines 213-222: the next mirror,
\* or the end of the scan and the exit status.
NextMirror ==
    /\ pc = "mirrors"
    /\ IF mirrors = <<>>
       THEN /\ pc' = IF has_bad THEN "exit1" ELSE "exit0"
            /\ UNCHANGED <<mirrors, mirror_dir, pool_dir, dist_dirs>>
       ELSE /\ mirrors' = Tail(mirrors)
            /\ mirror_dir' = Head(mirrors).dir
            /\ pool_dir' = IF Head(mirrors).flat THEN Head(mirrors).dir
                           ELSE TrimPath(Head(mirrors).dir, "dists")
            /\ dist_dirs' = IF Head(mirrors).flat THEN <<Head(mirrors).dir>>
                            ELSE SubDirs(site, Join(Head(mirrors).dir, <<"dists">>))
            /\ pc' = "dists"
    /\ UNCHANGED <<site, disk, newfile, config, cwd, opt_base, opt_delete,
                   opt_all, resume, resolved, dist_dir, phase, attrs, walkdirs,
                   files, new_base, newpos, pending, has_bad, log>>

\* bad_files_in_mirror, lines 224-228: the next distribution and its
\* compare_in_release; the generator of the mirror ends after the last one.
NextDist ==
    /\ pc = "dists"
    /\ IF dist_dirs = <<>>
       THEN /\ pc' = "mirrors"
            /\ UNCHANGED <<dist_dirs, dist_dir, phase, pending, resume, log>>
       ELSE LET dir == Head(dist_dirs)
                found == GlobFiles(site, disk, dir, "Release")
            IN  /\ dist_dirs' = Tail(dist_dirs)
                /\ dist_dir' = dir
                /\ phase' = "compare"
                /\ IF found = <<>>
                   THEN /\ pc' = "RuntimeError"
                        /\ UNCHANGED <<pending, resume, log>>
                   ELSE LET release_path == Head(found)
                            inrelease_path == ReplaceRelease(release_path)
                            there == IsFile(disk, inrelease_path)
                            same == there /\ disk[inrelease_path].data = disk[release_path].data
                            ev == [CompareEvent(inrelease_path, there, same)
                                      EXCEPT !.dist = dir]
                        IN  IF there /\ ~same
                            THEN /\ pending' = inrelease_path
                                 /\ resume' = "meta"
                                 /\ pc' = "yield"
                                 /\ log' = log \o <<ev, [YieldEvent(inrelease_path)
                                                EXCEPT !.dist = dir, !.phase = "compare"]>>
                            ELSE /\ pc' = "meta"
                                 /\ log' = Append(log, ev)
                                 /\ UNCHANGED <<pending, resume>>
    /\ UNCHANGED <<site, disk, newfile, config, cwd, opt_base, opt_delete,
                   opt_all, resolved, mirrors, mirror_dir, pool_dir, attrs,
                   walkdirs, files, new_base, newpos, has_bad>>

\* bad_files_in_mirror, line 230: dist_attrs, and bad_files_in_dir starts.
MetaStart ==
    /\ pc = "meta"
    /\ phase' = "meta"
    /\ attrs' = DistAttrs(site, disk, dist_dir)
    /\ walkdirs' = WalkDirs(site, dist_dir)
    /\ files' = <<>>
    /\ pc' = "walk"
    /\ UNCHANGED <<site, disk, newfile, config, cwd, opt_base, opt_delete,
                   opt_all, resume, resolved, mirrors, mirror_dir, pool_dir,
                   dist_dirs, dist_dir, new_base, newpos, pending, has_bad, log>>

\* bad_files_in_dir, lines 155-162: os.walk lists the next directory when
\* the files of the last are done; one file of the listing is visited.
Walk ==
    /\ pc = "walk"
    /\ IF files = <<>>
       THEN IF walkdirs = <<>>
            THEN /\ pc' = IF phase = "meta" THEN "pkg" ELSE "dists"
                 /\ UNCHANGED <<walkdirs, files, pending, resume, log>>
            ELSE /\ files' = Listing(site, disk, Head(walkdirs))
                 /\ walkdirs' = Tail(walkdirs)
                 /\ UNCHANGED <<pc, pending, resume, log>>
       ELSE LET filepath == Head(files)
            IN  /\ files' = Tail(files)
                /\ UNCHANGED walkdirs
                /\ IF SkipsFile(BaseName(filepath)) \/ filepath \notin DOMAIN attrs
                   THEN UNCHANGED <<pc, pending, resume, log>>
                   ELSE LET out == IsChecksumCorrect(DiskAt(disk, filepath), attrs[filepath])
                        IN  IF out.raised
                            THEN /\ pc' = "FileNotFoundError"
                                 /\ log' = Append(log, VerifyEvent(filepath, out))
                                 /\ UNCHANGED <<pending, resume>>
                            ELSE IF ~out.good
                            THEN /\ pending' = filepath
                                 /\ resume' = "walk"
                                 /\ pc' = "yield"
                                 /\ log' = log \o <<VerifyEvent(filepath, out),
                                                    YieldEvent(filepath)>>
                            ELSE /\ log' = Append(log, VerifyEvent(filepath, out))
                                 /\ UNCHANGED <<pc, pending, resume>>
    /\ UNCHANGED <<site, disk, newfile, config, cwd, opt_base, opt_delete,
                   opt_all, resolved, mirrors, mirror_dir, pool_dir, dist_dirs,
                   dist_dir, phase, attrs, new_base, newpos, has_bad>>

\* bad_files_in_mirror, lines 232-236: pool_attrs, then the walk of the pool
\* or the opening of var/NEW by get_new_downloaded_pkg(base_dir).
PackagesStage ==
    /\ pc = "pkg"
    /\ attrs' = PoolAttrs(site, disk, dist_dir, pool_dir)
    /\ IF opt_all
       THEN /\ phase' = "pool"
            /\ walkdirs' = WalkDirs(site, pool_dir)
            /\ files' = <<>>
            /\ pc' = "walk"
            /\ UNCHANGED <<new_base, newpos>>
       ELSE /\ phase' = "new"
            /\ new_base' = opt_base
            /\ newpos' = 1
            /\ pc' = IF opt_base = None THEN "TypeError"
                     ELSE IF ~newfile.exists THEN "dists"
                     ELSE "new"
            /\ UNCHANGED <<walkdirs, files>>
    /\ UNCHANGED <<site, disk, newfile, config, cwd, opt_base, opt_delete,
                   opt_all, resume, resolved, mirrors, mirror_dir, pool_dir,
                   dist_dirs, dist_dir, pending, has_bad, log>>

\* get_new_downloaded_pkg, lines 200-206, and bad_files_in_mirror, lines
\* 236-239: the next line of var/NEW.
NewLine ==
    /\ pc = "new"
    /\ IF newpos > Len(newfile.lines)
       THEN /\ pc' = "dists"
            /\ UNCHANGED <<newpos, pending, resume, log>>
       ELSE LET package_path == UrlToPath(new_base, newfile.lines[newpos])
            IN  /\ newpos' = newpos + 1
                /\ IF /\ IsDownloaded(disk, package_path)
                      /\ IsPrefix(mirror_dir, package_path)
                      /\ package_path \in DOMAIN attrs
                   THEN LET out == IsChecksumCorrect(DiskAt(disk, package_path),
                                                     attrs[package_path])
                        IN  IF out.raised
                            THEN /\ pc' = "FileNotFoundError"
                                 /\ log' = Append(log, VerifyEvent(package_path, out))
                                 /\ UNCHANGED <<pending, resume>>
                            ELSE IF ~out.good
                            THEN /\ pending' = package_path
                                 /\ resume' = "new"
                                 /\ pc' = "yield"
                                 /\ log' = log \o <<VerifyEvent(package_path, out),
                                                    YieldEvent(package_path)>>
                            ELSE /\ log' = Append(log, VerifyEvent(package_path, out))
                                 /\ UNCHANGED <<pc, pending, resume>>
                   ELSE UNCHANGED <<pc, pending, resume, log>>
    /\ UNCHANGED <<site, disk, newfile, config, cwd, opt_base, opt_delete,
                   opt_all, resolved, mirrors, mirror_dir, pool_dir, dist_dirs,
                   dist_dir, phase, attrs, walkdirs, files, new_base, has_bad>>

\* cli, lines 294-301: the body of the loop on a yielded path; the scan then
\* resumes where it was suspended.
Consume ==
    /\ pc = "yield"
    /\ has_bad' = TRUE
    /\ IF opt_delete
       THEN /\ log' = Append(log, UnlinkEvent(pending, IsFile(disk, pending)))
            /\ IF IsFile(disk, pending)
               THEN /\ disk' = [disk EXCEPT ![pending] = NoFile]
                    /\ pc' = resume
               ELSE /\ pc' = "FileNotFoundError"
                    /\ UNCHANGED disk
       ELSE /\ pc' = resume
            /\ UNCHANGED <<disk, log>>
    /\ pending' = None
    /\ UNCHANGED <<site, newfile, config, cwd, opt_base, opt_delete, opt_all,
                   resume, resolved, mirrors, mirror_dir, pool_dir, dist_dirs,
                   dist_dir, phase, attrs, walkdirs, files, new_base, newpos>>

(***************************************************************************)
(* Claims about the scan.                                                  *)
(***************************************************************************)
Events(op) == {i \in 1..Len(log) : log[i].op = op}

\* The paths is_checksum_correct was called on in a stage of a distribution.
VerifiedIn(dir, stage) ==
    {log[i].path : i \in {j \in Events("verify") :
                            log[j].dist = dir /\ log[j].phase = stage}}

\* The paths reported bad so far.
Yielded == {log[i].path : i \in Events("yield")}

\* The path of the mirrored copy of a downloaded URL.
ListedPath(url) == SitesDir \o <<url.host>> \o url.path

\* The paths var/NEW names.
Listed == {ListedPath(newfile.lines[i]) : i \in 1..Len(newfile.lines)}

\* A stage of bad_files_in_mirror has just ended for the distribution.
StageDone(stage) == phase = stage /\ pc = IF stage = "meta" THEN "pkg" ELSE "dists"

\* C5 as stated: once the metadata of a distribution is checked, a file named
\* Release that is on disk and a key of the Release manifest is reported bad
\* if and only if its checksum does not match the manifest.
C5_ReleaseFileVerified ==
    StageDone("meta") =>
        \A p \in DOMAIN attrs :
            (BaseName(p) = "Release" /\ IsFile(disk, p) /\ IsPrefix(dist_dir, p))
            => (p \in Yielded <=> ~IsChecksumCorrect(disk[p], attrs[p]).good)

\* C5: the directory check passes over every file named Release: no such
\* file is handed to is_checksum_correct, reported bad or unlinked, whatever
\* the manifest says about it.
C5_ReleaseFileSkipped ==
    \A i \in 1..Len(log) :
        log[i].op \in {"verify", "yield", "unlink"} => BaseName(log[i].path) # "Release"

\* The metadata check of the outer flat repository is over; its manifest
\* lists the nested Release file, which is on disk with another content.
C5_Witness ==
    /\ StageDone("meta")
    /\ dist_dir = FlatRoot
    /\ FlatRoot \o <<"sub", "Release">> \in DOMAIN attrs
    /\ IsFile(disk, FlatRoot \o <<"sub", "Release">>)
    /\ ~IsChecksumCorrect(disk[FlatRoot \o <<"sub", "Release">>],
                          attrs[FlatRoot \o <<"sub", "Release">>]).good
    /\ VerifiedIn(FlatRoot, "meta") # {}

\* C7 as stated: when the incremental stage of a distribution ends, the
\* package files read are exactly the listed paths that are keys of the
\* distribution's package manifest.
C7_ReadIsListedInManifest ==
    StageDone("new") =>
        VerifiedIn(dist_dir, "new") = Listed \cap DOMAIN attrs

\* C7: in incremental mode the package files read for a distribution are
\* listed paths that are keys of its package manifest, and when the stage
\* ends every such path has been read unless it is not a regular file on
\* disk; a manifest path that is not listed and a listed path that is not
\* in the manifest are never read.
C7_ReadIsListedInManifestOnDisk ==
    /\ phase = "new" =>
          VerifiedIn(dist_dir, "new") \subseteq Listed \cap DOMAIN attrs
    /\ StageDone("new") =>
          \A p \in Listed \cap DOMAIN attrs :
              p \in VerifiedIn(dist_dir, "new") \/ ~IsFile(disk, p)
    /\ \A i \in Events("verify") : log[i].found

\* The incremental stage of a distribution ends with one listed manifest
\* path read, a manifest path that is not listed, and a listed path that is
\* not in the manifest.
C7_Witness ==
    /\ StageDone("new")
    /\ VerifiedIn(dist_dir, "new") # {}
    /\ DOMAIN attrs \ Listed # {}
    /\ Listed \ DOMAIN attrs # {}

\* C9 as stated: the base directory the incremental stage opens var/NEW
\* under is the one get_sites_dir resolved, and the scan goes on.
C9_ResolvedBaseUsed ==
    phase = "new" => (new_base = resolved /\ pc # "TypeError")

\* C10 as stated: a path is unlinked only right after it was checked and
\* yielded as bad; no path is unlinked twice; no unlink finds its path
\* gone; and neither is_checksum_correct nor compare_in_release is tried on
\* a path unlinked before.
DeletedAfterYield ==
    \A i \in Events("unlink") :
        /\ i > 2
        /\ log[i - 1].op = "yield" /\ log[i - 1].path = log[i].path
        /\ log[i - 2].op \in {"verify", "compare"}
        /\ log[i - 2].path = log[i].path /\ ~log[i - 2].ok

UnlinkedOnce ==
    \A i, j \in Events("unlink") : log[i].path = log[j].path => i = j

UnlinkFinds == \A i \in Events("unlink") : log[i].found

NotTriedAfterUnlink(ops) ==
    \A i \in Events("unlink") : \A j \in 1..Len(log) :
        (i < j /\ log[j].op \in ops) => log[j].path # log[i].path

C10_NoAttemptAfterUnlink ==
    /\ DeletedAfterYield
    /\ UnlinkedOnce
    /\ UnlinkFinds
    /\ NotTriedAfterUnlink({"verify", "compare"})
    /\ pc # "FileNotFoundError"

\* C10: a path is unlinked only right after it was checked and yielded as
\* bad; no path is unlinked twice; no unlink finds its path gone;
\* is_checksum_correct is never called on a path unlinked before. (The
\* compare of a nested flat repository may try to open an InRelease file
\* the enclosing repository's metadata check got unlinked; it finds the
\* file missing and gives up.)
C10_DeletionInterleaving ==
    /\ DeletedAfterYield
    /\ UnlinkedOnce
    /\ UnlinkFinds
    /\ NotTriedAfterUnlink({"verify"})
    /\ pc # "FileNotFoundError"

\* Deletion is on and var/NEW names pool/a.deb twice; the package was
\* unlinked in the first distribution and the incremental stage of the
\* second, whose manifest lists it too, is over.
C10_Witness ==
    /\ opt_delete
    /\ StageDone("new")
    /\ newfile.lines = <<Url("deb", <<"debian", "pool", "a.deb">>),
                         Url("deb", <<"debian", "pool", "a.deb">>)>>
    /\ dist_dir = DebRoot \o <<"dists", "d2">>
    /\ DebRoot \o <<"pool", "a.deb">> \in DOMAIN attrs
    /\ \E i \in Events("unlink") :
          /\ log[i].path = DebRoot \o <<"pool", "a.deb">>
          /\ log[i].dist = DebRoot \o <<"dists", "d1">>

(***************************************************************************)
(* Specifications.                                                         *)
(* Each specification runs one part of the program on drawn inputs; the   *)
(* variables of the other parts stay at their idle values.                 *)
(***************************************************************************)
InitVerify == VerifyStart /\ ReleaseOff /\ PkgOff /\ CompareOff /\ ScanOff

NextVerify ==
    \/ VerifyCall /\ UNCHANGED <<releaseVars, pkgVars, compareVars, scanVars>>

SpecVerify == InitVerify /\ [][NextVerify]_vars

InitRelease == ReleaseStart /\ VerifyOff /\ PkgOff /\ CompareOff /\ ScanOff

NextRelease ==
    \/ DistAttrsLine /\ UNCHANGED <<verifyVars, pkgVars, compareVars, scanVars>>
    \/ DistAttrsNextFile /\ UNCHANGED <<verifyVars, pkgVars, compareVars, scanVars>>
    \/ DistAttrsReturn /\ UNCHANGED <<verifyVars, pkgVars, compareVars, scanVars>>

SpecRelease == InitRelease /\ [][NextRelease]_vars

InitPkg == PkgStart /\ VerifyOff /\ ReleaseOff /\ CompareOff /\ ScanOff

NextPkg ==
    \/ PkgAttrsLine /\ UNCHANGED <<verifyVars, releaseVars, compareVars, scanVars>>
    \/ PoolAttrsRecord /\ UNCHANGED <<verifyVars, releaseVars, compareVars, scanVars>>
    \/ PkgAttrsEndNextFile /\ UNCHANGED <<verifyVars, releaseVars, compareVars, scanVars>>
    \/ PoolAttrsReturn /\ UNCHANGED <<verifyVars, releaseVars, compareVars, scanVars>>

SpecPkg == InitPkg /\ [][NextPkg]_vars

InitCompare == CompareStart /\ VerifyOff /\ ReleaseOff /\ PkgOff /\ ScanOff

NextCompare ==
    \/ CompareInRelease /\ UNCHANGED <<verifyVars, releaseVars, pkgVars, scanVars>>

SpecCompare == InitCompare /\ [][NextCompare]_vars

InitScan == ScanStart /\ VerifyOff /\ ReleaseOff /\ PkgOff /\ CompareOff

NextScan ==
    \/ GetSitesDir /\ UNCHANGED <<verifyVars, releaseVars, pkgVars, compareVars>>
    \/ NextMirror /\ UNCHANGED <<verifyVars, releaseVars, pkgVars, compareVars>>
    \/ NextDist /\ UNCHANGED <<verifyVars, releaseVars, pkgVars, compareVars>>
    \/ MetaStart /\ UNCHANGED <<verifyVars, releaseVars, pkgVars, compareVars>>
    \/ Walk /\ UNCHANGED <<verifyVars, releaseVars, pkgVars, compareVars>>
    \/ PackagesStage /\ UNCHANGED <<verifyVars, releaseVars, pkgVars, compareVars>>
    \/ NewLine /\ UNCHANGED <<verifyVars, releaseVars, pkgVars, compareVars>>
    \/ Consume /\ UNCHANGED <<verifyVars, releaseVars, pkgVars, compareVars>>

Spec == InitScan /\ [][NextScan]_vars

=============================================================================
